---- MODULE Spec2Model ----
(***************************************************************************)
(* Model of python/social_bot/keybo_control.py: class KeyboardControl.      *)
(*                                                                         *)
(* The control state is held in Python floats, that is IEEE-754 binary64   *)
(* numbers, and every update of it is a float multiplication, addition or  *)
(* comparison.  The first part of this module is therefore a binary64      *)
(* arithmetic (round to nearest, ties to even, gradual underflow) over     *)
(* multi-limb naturals; the second part is the class itself.               *)
(***************************************************************************)
EXTENDS Integers, Sequences, FiniteSets, TLC

(***************************************************************************)
(* Naturals of arbitrary size: little-endian sequences of limbs in         *)
(* 0 .. Base-1 without a leading (most significant) zero limb; <<>> is 0.  *)
(***************************************************************************)
Base == 16384
LimbBits == 14

RECURSIVE Pow2(_)
Pow2(n) == IF n = 0 THEN 1 ELSE 2 * Pow2(n - 1)

RECURSIVE BTrim(_)
BTrim(a) ==
    IF a = <<>> THEN <<>>
    ELSE IF a[Len(a)] = 0 THEN BTrim(SubSeq(a, 1, Len(a) - 1))
    ELSE a

RECURSIVE BFromNat(_)
BFromNat(n) == IF n = 0 THEN <<>> ELSE <<n % Base>> \o BFromNat(n \div Base)

RECURSIVE BAddC(_, _, _)
BAddC(a, b, c) ==
    IF a = <<>> /\ b = <<>> THEN (IF c = 0 THEN <<>> ELSE <<c>>)
    ELSE LET x == (IF a = <<>> THEN 0 ELSE Head(a))
                  + (IF b = <<>> THEN 0 ELSE Head(b)) + c
         IN  <<x % Base>> \o BAddC(IF a = <<>> THEN <<>> ELSE Tail(a),
                                   IF b = <<>> THEN <<>> ELSE Tail(b),
                                   x \div Base)

BAdd(a, b) == BAddC(a, b, 0)

\* a - b for a >= b
RECURSIVE BSubC(_, _, _)
BSubC(a, b, c) ==
    IF a = <<>> THEN <<>>
    ELSE LET x == Head(a) - (IF b = <<>> THEN 0 ELSE Head(b)) - c
         IN  <<(x + Base) % Base>> \o BSubC(Tail(a),
                                            IF b = <<>> THEN <<>> ELSE Tail(b),
                                            IF x < 0 THEN 1 ELSE 0)

BSub(a, b) == BTrim(BSubC(a, b, 0))

\* -1, 0, 1 as a < b, a = b, a > b
RECURSIVE BCmpFrom(_, _, _)
BCmpFrom(a, b, i) ==
    IF i = 0 THEN 0
    ELSE IF a[i] < b[i] THEN -1
    ELSE IF a[i] > b[i] THEN 1
    ELSE BCmpFrom(a, b, i - 1)

BCmp(a, b) ==
    IF Len(a) < Len(b) THEN -1
    ELSE IF Len(a) > Len(b) THEN 1
    ELSE BCmpFrom(a, b, Len(a))

\* a * k for 0 <= k < 2^16
RECURSIVE BMulSmallC(_, _, _)
BMulSmallC(a, k, c) ==
    IF a = <<>> THEN BFromNat(c)
    ELSE LET x == Head(a) * k + c
         IN  <<x % Base>> \o BMulSmallC(Tail(a), k, x \div Base)

BMulSmall(a, k) == IF k = 0 THEN <<>> ELSE BMulSmallC(a, k, 0)

RECURSIVE BMul(_, _)
BMul(a, b) ==
    IF a = <<>> \/ b = <<>> THEN <<>>
    ELSE LET rest == BMul(a, Tail(b))
         IN  BAdd(BMulSmall(a, Head(b)),
                  IF rest = <<>> THEN <<>> ELSE <<0>> \o rest)

Zeros(n) == [i \in 1..n |-> 0]

\* a * 2^n
BShl(a, n) ==
    IF a = <<>> THEN <<>>
    ELSE Zeros(n \div LimbBits) \o BMulSmall(a, Pow2(n % LimbBits))

\* floor(a / 2^s) for 0 <= s < LimbBits, limb by limb from the top
BShrSmall(a, s) ==
    LET p == Pow2(s)
        q == Base \div p
    IN  BTrim([i \in 1..Len(a) |->
                 (a[i] \div p)
                 + (IF i < Len(a) THEN (a[i + 1] % p) * q ELSE 0)])

\* floor(a / 2^n)
BShr(a, n) ==
    LET w == n \div LimbBits
    IN  IF w >= Len(a) THEN <<>>
        ELSE BShrSmall(SubSeq(a, w + 1, Len(a)), n % LimbBits)

RECURSIVE NatBitLen(_)
NatBitLen(n) == IF n = 0 THEN 0 ELSE 1 + NatBitLen(n \div 2)

BBitLen(a) ==
    IF a = <<>> THEN 0 ELSE LimbBits * (Len(a) - 1) + NatBitLen(a[Len(a)])

BIsOdd(a) == a # <<>> /\ a[1] % 2 = 1

\* floor(a / k) and a mod k for 0 < k < 2^16, from the top limb down
RECURSIVE BDivSmallR(_, _, _, _)
BDivPut(rest, digit) == [quo |-> rest.quo \o <<digit>>, rem |-> rest.rem]

BDivSmallR(a, k, i, r) ==
    IF i = 0 THEN [quo |-> <<>>, rem |-> r]
    ELSE BDivPut(BDivSmallR(a, k, i - 1, (r * Base + a[i]) % k),
                 (r * Base + a[i]) \div k)

BDivTrim(d) == [quo |-> BTrim(d.quo), rem |-> d.rem]

BDivSmall(a, k) == BDivTrim(BDivSmallR(a, k, Len(a), 0))

(***************************************************************************)
(* IEEE-754 binary64.  A float is [sgn, man, exp] of value                 *)
(* (-1)^sgn * man * 2^exp, with man < 2^53, exp >= MinExp, and             *)
(* man >= 2^52 unless exp = MinExp (subnormal) or man = 0 (zero, exp 0).   *)
(***************************************************************************)
Precision == 53
MinExp == -1074

FZero(s) == [sgn |-> s, man |-> <<>>, exp |-> 0]

\* The float nearest to (-1)^s * m * 2^e, ties to even.  e2 is the exponent
\* of the result's last place, q the quotient of m at that place.
FPack(s, q2, e2) ==
    IF q2 = <<>> THEN FZero(s)
    ELSE IF BBitLen(q2) > Precision
    THEN [sgn |-> s, man |-> BShr(q2, 1), exp |-> e2 + 1]
    ELSE [sgn |-> s, man |-> q2, exp |-> e2]

\* c compares the remainder with half a unit of the last place
RoundsUp(c, q) == c > 0 \/ (c = 0 /\ BIsOdd(q))

FRoundQuot(s, m, e2, sh, q) ==
    FPack(s,
          IF RoundsUp(BCmp(BSub(m, BShl(q, sh)), BShl(<<1>>, sh - 1)), q)
          THEN BAdd(q, <<1>>) ELSE q,
          e2)

FRoundAt(s, m, e, e2) ==
    IF e2 <= e THEN [sgn |-> s, man |-> BShl(m, e - e2), exp |-> e2]
    ELSE FRoundQuot(s, m, e2, e2 - e, BShr(m, e2 - e))

LastPlace(top) == IF top - Precision > MinExp THEN top - Precision ELSE MinExp

FRound(s, m, e) ==
    IF m = <<>> THEN FZero(s)
    ELSE FRoundAt(s, m, e, LastPlace(e + BBitLen(m)))

FIsZero(x) == x.man = <<>>

FNeg(x) == [x EXCEPT !.sgn = 1 - x.sgn]

FMul(x, y) ==
    LET s == (x.sgn + y.sgn) % 2
    IN  IF FIsZero(x) \/ FIsZero(y) THEN FZero(s)
        ELSE FRound(s, BMul(x.man, y.man), x.exp + y.exp)

\* -1, 0, 1 as |x| < |y|, |x| = |y|, |x| > |y|
FCmpMag(x, y) ==
    IF FIsZero(x) THEN (IF FIsZero(y) THEN 0 ELSE -1)
    ELSE IF FIsZero(y) THEN 1
    ELSE IF x.exp < y.exp THEN -1
    ELSE IF x.exp > y.exp THEN 1
    ELSE BCmp(x.man, y.man)

\* the sum of two nonzero floats, |big| >= |small|: big's mantissa bm is
\* aligned to the exponent se of small's mantissa sm
FAddAligned(s, bm, ssgn, sm, se) ==
    IF s # ssgn /\ BCmp(bm, sm) = 0 THEN FZero(0)
    ELSE FRound(s, IF s = ssgn THEN BAdd(bm, sm) ELSE BSub(bm, sm), se)

FAddTo(big, ssgn, sm, se) ==
    FAddAligned(big.sgn, BShl(big.man, big.exp - se), ssgn, sm, se)

\* a far smaller addend only decides the rounding direction, so an exponent
\* gap of more than 64 is taken as 64 before the operands are aligned
FAddOrdered(big, small) ==
    FAddTo(big, small.sgn,
           IF big.exp - small.exp > 64 THEN <<1>> ELSE small.man,
           IF big.exp - small.exp > 64 THEN big.exp - 64 ELSE small.exp)

FAdd(x, y) ==
    IF FIsZero(x) /\ FIsZero(y)
    THEN FZero(IF x.sgn = 1 /\ y.sgn = 1 THEN 1 ELSE 0)
    ELSE IF FIsZero(x) THEN y
    ELSE IF FIsZero(y) THEN x
    ELSE FAddOrdered(IF FCmpMag(x, y) >= 0 THEN x ELSE y,
                     IF FCmpMag(x, y) >= 0 THEN y ELSE x)

FSub(x, y) == FAdd(x, FNeg(y))

\* x < y, x > y and x == y of Python floats (-0.0 == 0.0)
FLt(x, y) ==
    IF FIsZero(x) /\ FIsZero(y) THEN FALSE
    ELSE IF x.sgn # y.sgn THEN x.sgn = 1
    ELSE IF x.sgn = 0 THEN FCmpMag(x, y) < 0
    ELSE FCmpMag(x, y) > 0

FGt(x, y) == FLt(y, x)

FEq(x, y) == ~FLt(x, y) /\ ~FLt(y, x)

\* the value of a decimal literal n/d (d a power of ten below 2^16): the
\* float nearest to the quotient, found from a quotient of 64 extra bits
\* and a sticky bit for the remainder
LitQuot(dv) ==
    FRound(0, BAdd(BShl(dv.quo, 1), IF dv.rem = 0 THEN <<>> ELSE <<1>>), 0 - 71)

Lit(n, d) == LitQuot(BDivSmall(BShl(BFromNat(n), 70), d))

(***************************************************************************)
(* class KeyboardControl                                                   *)
(***************************************************************************)
VARIABLES
    speed, turning, gripper_pos, gripper_open,     \* self._speed, ...
    wheel_step, gripper_step, speed_decay, turning_decay,
    tty_queue,      \* characters typed and still in the terminal device
    stdin_buf,      \* characters sys.stdin has read from it and not returned
    term_mode,      \* the terminal's mode
    agent_type,     \* the agent type the harness drives
    key,            \* the key the last get_agent_actions call sampled
    actions,        \* what the last get_agent_actions call returned
    log,            \* the diagnostics the last call emitted
    raised,         \* an exception has left get_agent_actions
    op,             \* the last method that ran
    typed, ticks,   \* characters typed and calls made so far (bookkeeping)
    sampled         \* the keys the calls have sampled so far (bookkeeping)

control == <<speed, turning, gripper_pos, gripper_open,
             wheel_step, gripper_step, speed_decay, turning_decay>>
device  == <<tty_queue, stdin_buf, term_mode>>
result  == <<key, actions, log, raised>>
vars    == <<control, device, agent_type, result, op, typed, ticks, sampled>>

\* the characters a user types: the eleven of the key table and one other
MoveKeys    == {"w", "s", "a", "d"}
GripperKeys == {"i", "k", "j", "l"}
StepKeys    == {"+", "-"}
Keys        == MoveKeys \cup GripperKeys \cup {"e"} \cup StepKeys \cup {"W"}
None        == "None"

DiffDriveTypes == {"pioneer2dx_noplugin", "turtlebot"}
SupportedTypes == DiffDriveTypes \cup {"youbot_noplugin", "pr2_noplugin"}
AgentTypes     == SupportedTypes \cup {"icub"}

\* the literals of the source
Zero  == FZero(0)
C0_01 == Lit(1, 100)
C1_5  == Lit(15, 10)
C0_7  == Lit(7, 10)
C0_5  == Lit(5, 10)
C0_3  == Lit(3, 10)
C0_1  == Lit(1, 10)
C0_2  == Lit(2, 10)
\* as InitSpeedDecay, a decay factor above one
InitSpeedDecay_Grow == Lit(11, 10)

\* as InitTurningDecay, turning decaying as slowly as speed
InitTurningDecay_AsSpeed == Lit(9, 10)

InitWheelStep    == Lit(5, 10)
InitGripperStep  == Lit(2, 100)
InitSpeedDecay   == Lit(9, 10)
InitTurningDecay == Lit(5, 10)

Init ==
    /\ speed = Zero
    /\ turning = Zero
    /\ gripper_pos = <<Zero, Zero, Zero>>
    /\ gripper_open = TRUE
    /\ wheel_step = InitWheelStep
    /\ gripper_step = InitGripperStep
    /\ speed_decay = InitSpeedDecay
    /\ turning_decay = InitTurningDecay
    /\ tty_queue = <<>>
    /\ stdin_buf = <<>>
    /\ term_mode = "cooked"
    /\ agent_type \in AgentTypes
    /\ key = None
    /\ actions = <<>>
    /\ log = <<>>
    /\ raised = FALSE
    /\ op = "init"
    /\ typed = 0
    /\ ticks = 0
    /\ sampled = <<>>

\* the user presses the key c; the terminal queues it
TypeKey(c) ==
    /\ ~raised
    /\ tty_queue' = Append(tty_queue, c)
    /\ typed' = typed + 1
    /\ UNCHANGED <<control, stdin_buf, term_mode, agent_type, result, op,
                   ticks, sampled>>

\* as reset, the step sizes set back to their constructor values too
reset_Steps ==
    /\ ~raised
    /\ gripper_pos' = <<Zero, Zero, Zero>>
    /\ gripper_open' = TRUE
    /\ speed' = Zero
    /\ turning' = Zero
    /\ wheel_step' = InitWheelStep
    /\ gripper_step' = InitGripperStep
    /\ op' = "reset"
    /\ UNCHANGED <<speed_decay, turning_decay,
                   device, agent_type, result, typed, ticks, sampled>>

reset ==
    /\ ~raised
    /\ gripper_pos' = <<Zero, Zero, Zero>>
    /\ gripper_open' = TRUE
    /\ speed' = Zero
    /\ turning' = Zero
    /\ op' = "reset"
    /\ UNCHANGED <<wheel_step, gripper_step, speed_decay, turning_decay,
                   device, agent_type, result, typed, ticks, sampled>>

\* _get_key: the terminal is made raw, polled without waiting, read for one
\* character if it is readable, and set back to the saved mode on the way
\* out.  select() looks at the terminal device, read(1) at sys.stdin: a read
\* that finds sys.stdin's buffer empty fills it with all the device holds.
\* fail: the read raises.
GetKeyMode(old_settings, ready, fail) == old_settings

GetKey(queue, buf, mode, fail) ==
    LET old_settings == mode
        ready        == queue # <<>>
        avail        == IF buf # <<>> THEN buf ELSE queue
    IN  IF ~ready
        THEN [key |-> None, queue |-> queue, buf |-> buf,
              mode |-> GetKeyMode(old_settings, FALSE, FALSE), raised |-> FALSE]
        ELSE IF fail
        THEN [key |-> None, queue |-> queue, buf |-> buf,
              mode |-> GetKeyMode(old_settings, TRUE, TRUE), raised |-> TRUE]
        ELSE [key |-> Head(avail),
              queue |-> IF buf # <<>> THEN queue ELSE <<>>,
              buf |-> Tail(avail),
              mode |-> GetKeyMode(old_settings, TRUE, FALSE), raised |-> FALSE]

\* as SpeedAfter, "w" stopping any backward motion and "s" any forward one
SpeedAfter_ZeroCross(k, sp, ws) ==
    IF k = "w" THEN (IF FLt(sp, Zero) THEN Zero ELSE FAdd(sp, ws))
    ELSE IF k = "s" THEN (IF FGt(sp, Zero) THEN Zero ELSE FSub(sp, ws))
    ELSE sp

\* as SpeedAfter, the step of "w" and "s" taken twice
SpeedAfter_Twice(k, sp, ws) ==
    IF k = "w"
    THEN (IF FLt(sp, FNeg(C0_01)) THEN Zero ELSE FAdd(FAdd(sp, ws), ws))
    ELSE IF k = "s"
    THEN (IF FGt(sp, C0_01) THEN Zero ELSE FSub(FSub(sp, ws), ws))
    ELSE sp

\* as SpeedAfter, the forward key read without regard to case
SpeedAfter_AnyCase(k, sp, ws) ==
    IF k = "w" \/ k = "W"
    THEN (IF FLt(sp, FNeg(C0_01)) THEN Zero ELSE FAdd(sp, ws))
    ELSE IF k = "s" THEN (IF FGt(sp, C0_01) THEN Zero ELSE FSub(sp, ws))
    ELSE sp

\* the key's effect on each field, applied to the decayed speed and turning
SpeedAfter(k, sp, ws) ==
    IF k = "w" THEN (IF FLt(sp, FNeg(C0_01)) THEN Zero ELSE FAdd(sp, ws))
    ELSE IF k = "s" THEN (IF FGt(sp, C0_01) THEN Zero ELSE FSub(sp, ws))
    ELSE sp

\* as TurningAfter, an opposing key never braking
TurningAfter_NoBrake(k, tu, ws) ==
    IF k = "a" THEN FSub(tu, ws)
    ELSE IF k = "d" THEN FAdd(tu, ws)
    ELSE tu

TurningAfter(k, tu, ws) ==
    IF k = "a" THEN (IF FGt(tu, C0_01) THEN Zero ELSE FSub(tu, ws))
    ELSE IF k = "d" THEN (IF FLt(tu, FNeg(C0_01)) THEN Zero ELSE FAdd(tu, ws))
    ELSE tu

\* as GripperPosAfter, the offsets moved by the constructor's gripper step
GripperPosAfter_InitStep(k, gp, gs) ==
    IF k = "i" THEN [gp EXCEPT ![1] = FSub(gp[1], InitGripperStep)]
    ELSE IF k = "k" THEN [gp EXCEPT ![1] = FAdd(gp[1], InitGripperStep)]
    ELSE IF k = "j" THEN [gp EXCEPT ![2] = FSub(gp[2], InitGripperStep)]
    ELSE IF k = "l" THEN [gp EXCEPT ![2] = FAdd(gp[2], InitGripperStep)]
    ELSE gp

\* as GripperPosAfter, "j" and "l" moving the third offset
GripperPosAfter_ThirdAxis(k, gp, gs) ==
    IF k = "i" THEN [gp EXCEPT ![1] = FSub(gp[1], gs)]
    ELSE IF k = "k" THEN [gp EXCEPT ![1] = FAdd(gp[1], gs)]
    ELSE IF k = "j" THEN [gp EXCEPT ![3] = FSub(gp[3], gs)]
    ELSE IF k = "l" THEN [gp EXCEPT ![3] = FAdd(gp[3], gs)]
    ELSE gp

GripperPosAfter(k, gp, gs) ==
    IF k = "i" THEN [gp EXCEPT ![1] = FSub(gp[1], gs)]
    ELSE IF k = "k" THEN [gp EXCEPT ![1] = FAdd(gp[1], gs)]
    ELSE IF k = "j" THEN [gp EXCEPT ![2] = FSub(gp[2], gs)]
    ELSE IF k = "l" THEN [gp EXCEPT ![2] = FAdd(gp[2], gs)]
    ELSE gp

GripperOpenAfter(k, go) == IF k = "e" THEN ~go ELSE go

\* as StepAfter, "e" scaling the step as well
StepAfter_OnE(k, step) ==
    IF k = "+" \/ k = "e" THEN FMul(step, C1_5)
    ELSE IF k = "-" THEN FMul(step, C0_7)
    ELSE step

\* as StepAfter, "-" taking 0.7 off the step
StepAfter_Minus(k, step) ==
    IF k = "+" THEN FMul(step, C1_5)
    ELSE IF k = "-" THEN FSub(step, C0_7)
    ELSE step

StepAfter(k, step) ==
    IF k = "+" THEN FMul(step, C1_5)
    ELSE IF k = "-" THEN FMul(step, C0_7)
    ELSE step

ToDiffDriveAction(sp, tu) ==
    LET left_wheel_joint  == FAdd(sp, tu)
        right_wheel_joint == FSub(sp, tu)
    IN  <<left_wheel_joint, right_wheel_joint>>

\* as GripperJoint, a closed gripper commanded to 0
GripperJoint_ClosedAtZero(go) == IF go THEN C0_5 ELSE Zero

GripperJoint(go) == IF go THEN C0_5 ELSE FNeg(C0_5)

\* as ToYoubotAction, the two gripper offsets taken for one another
ToYoubotAction_Swapped(sp, tu, gp, go) ==
    LET wheel_joint_bl == FAdd(sp, tu)
        wheel_joint_br == FSub(sp, tu)
        wheel_joint_fl == FAdd(sp, tu)
        wheel_joint_fr == FSub(sp, tu)
        gripper_joint  == GripperJoint(go)
    IN  <<Zero, FAdd(C0_5, gp[1]), C0_3, FSub(gp[2], C0_1), C0_2, Zero,
          Zero, gripper_joint, gripper_joint,
          wheel_joint_bl, wheel_joint_br, wheel_joint_fl, wheel_joint_fr>>

ToYoubotAction(sp, tu, gp, go) ==
    LET wheel_joint_bl == FAdd(sp, tu)
        wheel_joint_br == FSub(sp, tu)
        wheel_joint_fl == FAdd(sp, tu)
        wheel_joint_fr == FSub(sp, tu)
        gripper_joint  == GripperJoint(go)
    IN  <<Zero, FAdd(C0_5, gp[2]), C0_3, FSub(gp[1], C0_1), C0_2, Zero,
          Zero, gripper_joint, gripper_joint,
          wheel_joint_bl, wheel_joint_br, wheel_joint_fl, wheel_joint_fr>>

\* as ToPr2Action, left and right alternating joint by joint
ToPr2Action_Alternating(sp, tu) ==
    LET wheel_joint_bl == FAdd(sp, tu)
        wheel_joint_br == FSub(sp, tu)
        wheel_joint_fl == FAdd(sp, tu)
        wheel_joint_fr == FSub(sp, tu)
    IN  <<wheel_joint_fl, wheel_joint_fr, wheel_joint_fl, wheel_joint_fr,
          wheel_joint_bl, wheel_joint_br, wheel_joint_bl, wheel_joint_br>>

ToPr2Action(sp, tu) ==
    LET wheel_joint_bl == FAdd(sp, tu)
        wheel_joint_br == FSub(sp, tu)
        wheel_joint_fl == FAdd(sp, tu)
        wheel_joint_fr == FSub(sp, tu)
    IN  <<wheel_joint_fl, wheel_joint_fl, wheel_joint_fr, wheel_joint_fr,
          wheel_joint_bl, wheel_joint_bl, wheel_joint_br, wheel_joint_br>>

\* as ConvertToAgentAction, the second diff-drive name not recognised
ConvertToAgentAction_OneName(at, sp, tu, gp, go) ==
    IF at = "pioneer2dx_noplugin" THEN ToDiffDriveAction(sp, tu)
    ELSE IF at = "youbot_noplugin" THEN ToYoubotAction(sp, tu, gp, go)
    ELSE IF at = "pr2_noplugin" THEN ToPr2Action(sp, tu)
    ELSE <<>>

\* _convert_to_agent_action: the vector it returns
ConvertToAgentAction(at, sp, tu, gp, go) ==
    IF at = "pioneer2dx_noplugin" \/ at = "turtlebot"
    THEN ToDiffDriveAction(sp, tu)
    ELSE IF at = "youbot_noplugin" THEN ToYoubotAction(sp, tu, gp, go)
    ELSE IF at = "pr2_noplugin" THEN ToPr2Action(sp, tu)
    ELSE <<>>

\* as ConvertLog, nothing logged
ConvertLog_Silent(at) == <<>>

\* _convert_to_agent_action: the diagnostics it logs
ConvertLog(at) ==
    IF at = "pioneer2dx_noplugin" \/ at = "turtlebot" THEN <<>>
    ELSE IF at = "youbot_noplugin" THEN <<>>
    ELSE IF at = "pr2_noplugin" THEN <<>>
    ELSE <<[level |-> "info",
            text |-> <<"agent type not supported yet: ", at>>]>>

\* as GetAgentActions, a call for an unsupported agent type sampling the key
\* and leaving the control state as it is
GetAgentActions_SupportedOnly(at, fail, cap) ==
    /\ ~raised
    /\ LET g == GetKey(tty_queue, stdin_buf, term_mode, fail)
       IN  /\ tty_queue' = g.queue
           /\ stdin_buf' = g.buf
           /\ term_mode' = g.mode
           /\ raised' = g.raised
           /\ key' = IF g.raised THEN key ELSE g.key
    /\ IF raised'
       THEN UNCHANGED <<control, actions, log>>
       ELSE IF at \notin SupportedTypes
       THEN /\ UNCHANGED control
            /\ actions' = <<>>
            /\ log' = ConvertLog(at)
       ELSE /\ speed' = SpeedAfter(key', FMul(speed, speed_decay), wheel_step)
            /\ turning' =
                   TurningAfter(key', FMul(turning, turning_decay), wheel_step)
            /\ gripper_pos' = GripperPosAfter(key', gripper_pos, gripper_step)
            /\ gripper_open' = GripperOpenAfter(key', gripper_open)
            /\ wheel_step' = StepAfter(key', wheel_step)
            /\ gripper_step' = StepAfter(key', gripper_step)
            /\ UNCHANGED <<speed_decay, turning_decay>>
            /\ actions' = ConvertToAgentAction(at, speed', turning',
                                                gripper_pos', gripper_open')
            /\ log' = ConvertLog(at)
    /\ agent_type' = at
    /\ op' = "get_agent_actions"
    /\ ticks' = IF ticks < cap THEN ticks + 1 ELSE ticks
    /\ sampled' = IF raised' \/ key' = None THEN sampled
                  ELSE Append(sampled, key')
    /\ UNCHANGED typed

\* get_agent_actions(at); cap is where the call counter stops counting.
\* The assignments are in the order of the code: sample, decay and key
\* effect, projection of the updated state.
GetAgentActions(at, fail, cap) ==
    /\ ~raised
    /\ LET g == GetKey(tty_queue, stdin_buf, term_mode, fail)
       IN  /\ tty_queue' = g.queue
           /\ stdin_buf' = g.buf
           /\ term_mode' = g.mode
           /\ raised' = g.raised
           /\ key' = IF g.raised THEN key ELSE g.key
    /\ IF raised'
       THEN UNCHANGED <<control, actions, log>>
       ELSE /\ speed' = SpeedAfter(key', FMul(speed, speed_decay), wheel_step)
            /\ turning' =
                   TurningAfter(key', FMul(turning, turning_decay), wheel_step)
            /\ gripper_pos' = GripperPosAfter(key', gripper_pos, gripper_step)
            /\ gripper_open' = GripperOpenAfter(key', gripper_open)
            /\ wheel_step' = StepAfter(key', wheel_step)
            /\ gripper_step' = StepAfter(key', gripper_step)
            /\ UNCHANGED <<speed_decay, turning_decay>>
            /\ actions' = ConvertToAgentAction(at, speed', turning',
                                                gripper_pos', gripper_open')
            /\ log' = ConvertLog(at)
    /\ agent_type' = at
    /\ op' = "get_agent_actions"
    /\ ticks' = IF ticks < cap THEN ticks + 1 ELSE ticks
    /\ sampled' = IF raised' \/ key' = None THEN sampled
                  ELSE Append(sampled, key')
    /\ UNCHANGED typed

(***************************************************************************)
(* Spec: the harness of main() with every key of the table, a short run.   *)
(***************************************************************************)
MaxTyped == 2
MaxTicks == 3

Type == \E c \in Keys : typed < MaxTyped /\ ticks < MaxTicks /\ TypeKey(c)
Call == ticks < MaxTicks /\ GetAgentActions(agent_type, FALSE, MaxTicks)
CallReadRaises ==
    ticks < MaxTicks /\ tty_queue # <<>>
    /\ GetAgentActions(agent_type, TRUE, MaxTicks)
Reset == ticks < MaxTicks /\ reset

Next == Type \/ Call \/ CallReadRaises \/ Reset

Spec == Init /\ [][Next]_vars


(***************************************************************************)
(* SpecBrake: a diff-drive harness and the keys "w" and "s", a run long    *)
(* enough for speed to decay below the 0.01 threshold.                     *)
(***************************************************************************)
MaxTypedBrake == 2
MaxTicksBrake == 40

InitBrake == Init /\ agent_type = "turtlebot"
BrakeKeys == {"w", "s"}
TypeBrake ==
    \E c \in BrakeKeys :
        typed < MaxTypedBrake /\ ticks < MaxTicksBrake /\ TypeKey(c)
CallBrake ==
    ticks < MaxTicksBrake /\ GetAgentActions(agent_type, FALSE, MaxTicksBrake)
NextBrake == TypeBrake \/ CallBrake

SpecBrake == InitBrake /\ [][NextBrake]_vars

(***************************************************************************)
(* SpecIdle: a diff-drive harness whose user presses at most one of the    *)
(* keys "s", "a", "d" before each of the first calls and then leaves the   *)
(* keyboard, while the loop of main() keeps calling; the run ends when a   *)
(* call no longer changes the state.                                       *)
(***************************************************************************)
KeyTicks == 2

IdleKeys == {"s", "a", "d"}
InitIdle == Init /\ agent_type = "turtlebot"
TypeIdle ==
    \E c \in IdleKeys :
        ticks < KeyTicks /\ tty_queue = <<>> /\ stdin_buf = <<>> /\ TypeKey(c)
CallIdle == GetAgentActions(agent_type, FALSE, KeyTicks)
ResetIdle == ticks < KeyTicks /\ op # "reset" /\ reset
NextIdle == TypeIdle \/ CallIdle \/ ResetIdle

SpecIdle == InitIdle /\ [][NextIdle]_vars

(***************************************************************************)
(* SpecStep: a youbot harness and the step keys with two movement and two  *)
(* gripper keys.                                                           *)
(***************************************************************************)
MaxTypedStep == 3
MaxTicksStep == 4

ScalingKeys == StepKeys \cup {"w", "a", "k", "j"}
InitStep == Init /\ agent_type = "youbot_noplugin"
TypeStep ==
    \E c \in ScalingKeys :
        typed < MaxTypedStep /\ ticks < MaxTicksStep /\ TypeKey(c)
CallStep ==
    ticks < MaxTicksStep /\ GetAgentActions(agent_type, FALSE, MaxTicksStep)
ResetAtStep == ticks < MaxTicksStep /\ op # "reset" /\ reset
NextStep == TypeStep \/ CallStep \/ ResetAtStep

SpecStep == InitStep /\ [][NextStep]_vars

(***************************************************************************)
(* SpecThreshold: a diff-drive harness whose user drives one axis in a     *)
(* run, with "w" and "s" or with "a" and "d", a run long enough for speed  *)
(* to decay below the 0.01 threshold between two keys; it ends with the    *)
(* call that samples the last key.                                         *)
(***************************************************************************)
MaxTypedThreshold == 2
MaxTicksThreshold == 39

InitThreshold == Init /\ agent_type = "pioneer2dx_noplugin"
OnAxisOf(c, keys) ==
    \A i \in 1..Len(keys) : (keys[i] \in {"w", "s"}) = (c \in {"w", "s"})
TypeThreshold ==
    \E c \in MoveKeys :
        /\ typed < MaxTypedThreshold /\ ticks < MaxTicksThreshold
        /\ OnAxisOf(c, sampled \o stdin_buf \o tty_queue)
        /\ TypeKey(c)
CallThreshold ==
    /\ ticks < MaxTicksThreshold /\ Len(sampled) < MaxTypedThreshold
    /\ GetAgentActions(agent_type, FALSE, MaxTicksThreshold)
NextThreshold == TypeThreshold \/ CallThreshold

SpecThreshold == InitThreshold /\ [][NextThreshold]_vars

(***************************************************************************)
(* SpecHold: a diff-drive harness whose user holds one movement key down,  *)
(* so that every call samples that key.                                    *)
(***************************************************************************)
MaxHeld == 330

InitHold == Init /\ agent_type = "turtlebot"
Only(c, keys) == \A i \in 1..Len(keys) : keys[i] = c
TypeHold ==
    \E c \in MoveKeys :
        /\ typed < MaxHeld /\ tty_queue = <<>> /\ stdin_buf = <<>>
        /\ Only(c, sampled)
        /\ TypeKey(c)
CallHold == tty_queue # <<>> /\ GetAgentActions(agent_type, FALSE, MaxHeld)
NextHold == TypeHold \/ CallHold

SpecHold == InitHold /\ [][NextHold]_vars

(***************************************************************************)
(* SpecRatio: a diff-drive harness and the step keys with the gripper key  *)
(* "e", and reset().                                                       *)
(***************************************************************************)
MaxTypedRatio == 3
MaxTicksRatio == 3

RatioKeys == StepKeys \cup {"e"}
InitRatio == Init /\ agent_type = "pioneer2dx_noplugin"
TypeRatio ==
    \E c \in RatioKeys :
        typed < MaxTypedRatio /\ ticks < MaxTicksRatio /\ TypeKey(c)
CallRatio ==
    ticks < MaxTicksRatio /\ GetAgentActions(agent_type, FALSE, MaxTicksRatio)
ResetRatio == ticks < MaxTicksRatio /\ op # "reset" /\ reset
NextRatio == TypeRatio \/ CallRatio \/ ResetRatio

SpecRatio == InitRatio /\ [][NextRatio]_vars

(***************************************************************************)
(* Properties                                                              *)
(***************************************************************************)
\* a get_agent_actions call has just returned
Returned == op = "get_agent_actions" /\ ~raised

\* the step is a get_agent_actions call that returns, a reset() call
ReturnStep == op' = "get_agent_actions" /\ typed' = typed /\ ~raised'
ResetStep  == op' = "reset" /\ typed' = typed

ActionLen(at) ==
    IF at \in DiffDriveTypes THEN 2
    ELSE IF at = "youbot_noplugin" THEN 13
    ELSE 8

\* C1: whatever keys and resets came before, the vector a call returns for a
\* supported agent type has the length fixed by the type alone: 2 for the
\* diff-drive types, 13 for youbot, 8 for pr2.
C1_ActionLength ==
    (Returned /\ agent_type \in SupportedTypes)
        => Len(actions) = ActionLen(agent_type)

\* a turtlebot call that sampled a key after an earlier call returned 2 values
C1_Witness ==
    /\ Returned /\ agent_type = "turtlebot"
    /\ ticks >= 2 /\ key \in Keys /\ Len(actions) = 2


\* C2 as stated: a call that samples "w" while speed is negative and of
\* magnitude below 0.01 leaves speed exactly 0.
C2_Original ==
    [][(ReturnStep /\ key' = "w"
        /\ FLt(speed, Zero) /\ FGt(speed, FNeg(C0_01)))
       => FIsZero(speed')]_vars

\* C2 amended: such a call adds wheel_step to the decayed speed, since the
\* decayed speed is not below -0.01; the result is positive when wheel_step
\* is at least 0.01.
C2_SmallBackwardSpeedAccelerates ==
    [][(ReturnStep /\ key' = "w"
        /\ FLt(speed, Zero) /\ FGt(speed, FNeg(C0_01)))
       => /\ speed' = FAdd(FMul(speed, speed_decay), wheel_step)
          /\ (~FLt(wheel_step, C0_01) => FGt(speed', Zero))]_vars

\* "w" was sampled with the decayed speed between -0.01 and 0: speed is now
\* within 0.01 below wheel_step
C2_Witness ==
    /\ Returned /\ key = "w"
    /\ FLt(speed, wheel_step)
    /\ FGt(speed, FSub(wheel_step, C0_01))

\* C3: from speed = 0 and turning = 0 a call sampling "w" leaves speed equal
\* to wheel_step and returns the diff-drive action [wheel_step, wheel_step];
\* a following call without a key leaves speed_decay * wheel_step and
\* returns [speed, speed].  With the defaults these are 0.5 and 0.45.
C3_ForwardThenDecay ==
    [][/\ (ReturnStep /\ key' = "w" /\ FIsZero(speed) /\ FIsZero(turning))
          => /\ speed' = wheel_step
             /\ agent_type' \in DiffDriveTypes
                    => actions' = <<wheel_step, wheel_step>>
             /\ wheel_step = InitWheelStep => speed' = Lit(5, 10)
       /\ (ReturnStep /\ key' = None /\ Returned /\ key = "w"
           /\ speed = wheel_step /\ FIsZero(turning))
          => /\ speed' = FMul(speed_decay, wheel_step)
             /\ agent_type' \in DiffDriveTypes
                    => actions' = <<speed', speed'>>
             /\ wheel_step = InitWheelStep => speed' = Lit(45, 100)]_vars

\* the second call of the scenario has returned [0.45, 0.45]
C3_Witness ==
    /\ Returned /\ key = None /\ sampled = <<"w">> /\ ticks = 2
    /\ agent_type = "turtlebot"
    /\ speed = Lit(45, 100)
    /\ actions = <<Lit(45, 100), Lit(45, 100)>>

\* C4: reset() sets gripper_offset to [0,0,0], gripper_open to true, speed
\* and turning to 0, and leaves wheel_step, gripper_step, speed_decay and
\* turning_decay as they were.
C4_ResetFrame ==
    [][ResetStep
       => /\ gripper_pos' = <<Zero, Zero, Zero>>
          /\ gripper_open' = TRUE
          /\ speed' = Zero /\ turning' = Zero
          /\ wheel_step' = wheel_step /\ gripper_step' = gripper_step
          /\ speed_decay' = speed_decay
          /\ turning_decay' = turning_decay]_vars

\* reset() ran after a "+" key: the state is not the constructed one
C4_Witness ==
    /\ op = "reset" /\ sampled = <<"+">>
    /\ speed = Zero /\ gripper_pos = <<Zero, Zero, Zero>>
    /\ wheel_step = FMul(InitWheelStep, C1_5)
    /\ wheel_step # InitWheelStep /\ gripper_step # InitGripperStep


\* the subnormal float (-1)^s * m * 2^-1074, 0 < m < Base
Subnormal(s, m) == [sgn |-> s, man |-> <<m>>, exp |-> MinExp]

IsSmallest(x) == x.man = <<1>> /\ x.exp = MinExp

\* the step is a call that returns without having sampled a key
IdleStep == ReturnStep /\ key' = None

\* C5 as stated: a call without a key strictly decreases the magnitude of a
\* nonzero speed or turning, keeps its sign and never makes it 0; a nonzero
\* speed or turning becomes 0 only by the zero-crossing branch of a
\* w/s/a/d key or by reset().
C5_Original ==
    [][/\ (IdleStep /\ ~FIsZero(speed))
          => /\ FCmpMag(speed', speed) < 0
             /\ speed'.sgn = speed.sgn
             /\ ~FIsZero(speed')
       /\ (IdleStep /\ ~FIsZero(turning))
          => /\ FCmpMag(turning', turning) < 0
             /\ turning'.sgn = turning.sgn
             /\ ~FIsZero(turning')
       /\ (~FIsZero(speed) /\ FIsZero(speed'))
          => \/ ResetStep
             \/ ReturnStep /\ key' = "w" /\ FLt(speed, Zero)
             \/ ReturnStep /\ key' = "s" /\ FGt(speed, Zero)
       /\ (~FIsZero(turning) /\ FIsZero(turning'))
          => \/ ResetStep
             \/ ReturnStep /\ key' = "a" /\ FGt(turning, Zero)
             \/ ReturnStep /\ key' = "d" /\ FLt(turning, Zero)]_vars

\* C5 amended: a call without a key keeps the sign of speed and turning and
\* never increases their magnitude.  It strictly decreases the magnitude of
\* a nonzero turning and of a speed above 5 * 2^-1074 in magnitude; a
\* smaller nonzero speed stays as it is.  Such a call never makes speed 0,
\* and makes turning 0 exactly when its magnitude is 2^-1074, the smallest
\* float.  Otherwise a nonzero speed becomes 0 only in a call sampling "w"
\* or "s" or in reset(), a nonzero turning only in a call sampling "a" or
\* "d" or in reset().
C5_DecayUntilUnderflow ==
    [][/\ (IdleStep /\ ~FIsZero(speed))
          => /\ speed'.sgn = speed.sgn
             /\ ~FIsZero(speed')
             /\ IF FCmpMag(speed, Subnormal(0, 5)) > 0
                THEN FCmpMag(speed', speed) < 0
                ELSE speed' = speed
       /\ (IdleStep /\ ~FIsZero(turning))
          => /\ turning'.sgn = turning.sgn
             /\ FCmpMag(turning', turning) < 0
             /\ FIsZero(turning') <=> IsSmallest(turning)
       /\ (~FIsZero(speed) /\ FIsZero(speed'))
          => \/ ResetStep
             \/ ReturnStep /\ key' \in {"w", "s"}
       /\ (~FIsZero(turning) /\ FIsZero(turning'))
          => \/ ResetStep
             \/ ReturnStep /\ key' \in {"a", "d"}
             \/ IdleStep /\ IsSmallest(turning)]_vars

\* turning has decayed from one "a" key to exactly 0 (as -0.0)
C5_Witness ==
    /\ Returned /\ key = None /\ sampled = <<"a">>
    /\ turning = FZero(1)

\* speed has decayed from one "s" key to -5 * 2^-1074, where it stays
C5_WitnessSpeedStays ==
    /\ Returned /\ key = None /\ sampled = <<"s">>
    /\ speed = Subnormal(1, 5)


\* step * 1.5 * ... * 1.5 with n factors 1.5, evaluated from the left
RECURSIVE TimesOneAndAHalf(_, _)
TimesOneAndAHalf(step, n) ==
    IF n = 0 THEN step ELSE FMul(TimesOneAndAHalf(step, n - 1), C1_5)

\* the float of value 3^n / 2^(n+1), which is 0.5 * 1.5^n
RECURSIVE Pow3(_)
Pow3(n) == IF n = 0 THEN 1 ELSE 3 * Pow3(n - 1)
HalfOfOneAndAHalfTo(n) == FRound(0, BFromNat(Pow3(n)), 0 - (n + 1))

OnlyPlus(keys) == \A i \in 1..Len(keys) : keys[i] = "+"

\* C6: step scaling compounds and later keys use the scaled step.  After n
\* "+" keys and no other wheel_step is 0.5 * 1.5^n and gripper_step is
\* 0.02 * 1.5 * ... * 1.5; a "-" key multiplies both by 0.7; a w/s/a/d key
\* that does not brake moves the decayed speed or turning by the wheel_step
\* current at that call, and an i/k/j/l key moves its gripper offset by the
\* current gripper_step.
C6_StepScaling ==
    /\ [](OnlyPlus(sampled)
          => /\ wheel_step = HalfOfOneAndAHalfTo(Len(sampled))
             /\ wheel_step = TimesOneAndAHalf(InitWheelStep, Len(sampled))
             /\ gripper_step = TimesOneAndAHalf(InitGripperStep, Len(sampled)))
    /\ [][/\ (ReturnStep /\ key' = "-")
             => /\ wheel_step' = FMul(wheel_step, C0_7)
                /\ gripper_step' = FMul(gripper_step, C0_7)
          /\ (ReturnStep /\ key' = "w" /\ ~FLt(speed, Zero))
             => speed' = FAdd(FMul(speed, speed_decay), wheel_step)
          /\ (ReturnStep /\ key' = "s" /\ ~FGt(speed, Zero))
             => speed' = FSub(FMul(speed, speed_decay), wheel_step)
          /\ (ReturnStep /\ key' = "a" /\ ~FGt(turning, Zero))
             => turning' = FSub(FMul(turning, turning_decay), wheel_step)
          /\ (ReturnStep /\ key' = "d" /\ ~FLt(turning, Zero))
             => turning' = FAdd(FMul(turning, turning_decay), wheel_step)
          /\ (ReturnStep /\ key' = "i")
             => gripper_pos'[1] = FSub(gripper_pos[1], gripper_step)
          /\ (ReturnStep /\ key' = "k")
             => gripper_pos'[1] = FAdd(gripper_pos[1], gripper_step)
          /\ (ReturnStep /\ key' = "j")
             => gripper_pos'[2] = FSub(gripper_pos[2], gripper_step)
          /\ (ReturnStep /\ key' = "l")
             => gripper_pos'[2] = FAdd(gripper_pos[2], gripper_step)]_vars

\* after two "+" keys a "k" key has moved the gripper by 0.02 * 1.5 * 1.5
C6_Witness ==
    /\ Returned /\ sampled = <<"+", "+", "k">>
    /\ wheel_step = Lit(1125, 1000)
    /\ gripper_pos[1] = FMul(FMul(InitGripperStep, C1_5), C1_5)
    /\ gripper_pos[1] # InitGripperStep

\* C7: wheel_step and gripper_step change only in a call that samples "+"
\* or "-"; speed_decay and turning_decay never change.
C7_StepFrame ==
    [][/\ (wheel_step' # wheel_step \/ gripper_step' # gripper_step)
          => (ReturnStep /\ key' \in StepKeys)
       /\ speed_decay' = speed_decay
       /\ turning_decay' = turning_decay]_vars

\* a call sampled "+": the steps have changed, the decay factors have not
C7_Witness ==
    /\ Returned /\ key = "+"
    /\ wheel_step # InitWheelStep /\ gripper_step # InitGripperStep
    /\ speed_decay = InitSpeedDecay /\ turning_decay = InitTurningDecay


\* C8: the youbot action's gripper joints, elements 7 and 8 counted from 0,
\* are equal and are 0.5 when gripper_open is true and -0.5 when it is
\* false; gripper_open changes only by the "e" key, which toggles it, and
\* by reset(), which sets it to true.
C8_GripperJoints ==
    /\ []((Returned /\ agent_type = "youbot_noplugin")
          => /\ Len(actions) = 13
             /\ actions[8] = actions[9]
             /\ actions[8] = IF gripper_open THEN Lit(5, 10)
                             ELSE FNeg(Lit(5, 10)))
    /\ [][/\ gripper_open' # gripper_open
             => \/ ReturnStep /\ key' = "e"
                \/ ResetStep /\ gripper_open'
          /\ (ReturnStep /\ key' = "e")
             => gripper_open' = ~gripper_open]_vars

\* a youbot call sampled "e" and returned both gripper joints at -0.5
C8_Witness ==
    /\ Returned /\ agent_type = "youbot_noplugin" /\ key = "e"
    /\ ~gripper_open
    /\ actions[8] = FNeg(Lit(5, 10)) /\ actions[9] = FNeg(Lit(5, 10))

\* C9: for an agent type outside the supported set a call returns the empty
\* sequence and emits exactly one informational diagnostic naming the type,
\* whatever key it sampled; a call whose read does not raise raises nothing.
C9_UnsupportedType ==
    /\ []((Returned /\ agent_type \notin SupportedTypes)
          => /\ actions = <<>>
             /\ log = <<[level |-> "info",
                         text |-> <<"agent type not supported yet: ",
                                    agent_type>>]>>)
    /\ [][(Call /\ agent_type \notin SupportedTypes) => ~raised']_vars

\* a call for the type "icub" sampled a key and returned nothing
C9_Witness ==
    /\ Returned /\ agent_type = "icub" /\ key = "w" /\ ticks >= 2
    /\ actions = <<>> /\ Len(log) = 1

\* the characters typed and not yet sampled, oldest first
Pending == stdin_buf \o tty_queue

\* C10: a call samples the oldest pending character when there is one, so
\* that k pending characters are sampled by the next k calls in the order
\* of arrival, and samples nothing when none is pending; the terminal mode
\* after a call, also one whose read raises, is the mode before it.
C10_Original ==
    [][(op' = "get_agent_actions" /\ typed' = typed)
       => /\ term_mode' = term_mode
          /\ ~raised'
                => IF Pending = <<>>
                   THEN key' = None /\ Pending' = <<>>
                   ELSE key' = Head(Pending) /\ Pending' = Tail(Pending)]_vars

\* the part of C10 that holds: the terminal mode is the same after every
\* call, and the keys sampled are the characters typed, in their order
C10_ModeRestoredAndOrderKept ==
    /\ [](term_mode = "cooked")
    /\ [](Len(sampled) + Len(Pending) = typed)
    /\ [][sampled \o Pending = sampled' \o Pending'
          \/ (typed' = typed + 1 /\ Len(Pending') = Len(Pending) + 1
              /\ sampled' = sampled)]_vars

\* C11: a call changes, besides the decay of speed and turning, only the
\* fields of the sampled key's row of the key table: w/s speed, a/d turning,
\* i/k the first gripper offset, j/l the second, e gripper_open, +/- the
\* two step sizes; a key outside the table, such as "W", and no key change
\* nothing.  The third gripper offset and the decay factors never change.
C11_KeyFrame ==
    [][ReturnStep
       => /\ key' \notin {"w", "s"} => speed' = FMul(speed, speed_decay)
          /\ key' \notin {"a", "d"} => turning' = FMul(turning, turning_decay)
          /\ key' \notin {"i", "k"} => gripper_pos'[1] = gripper_pos[1]
          /\ key' \notin {"j", "l"} => gripper_pos'[2] = gripper_pos[2]
          /\ gripper_pos'[3] = gripper_pos[3]
          /\ key' # "e" => gripper_open' = gripper_open
          /\ key' \notin {"+", "-"}
                => wheel_step' = wheel_step /\ gripper_step' = gripper_step
          /\ speed_decay' = speed_decay /\ turning_decay' = turning_decay]_vars

\* "W" was sampled one call after "w": speed has only decayed, to 0.45
C11_Witness ==
    /\ Returned /\ key = "W" /\ sampled = <<"w", "W">> /\ ticks = 2
    /\ speed = Lit(45, 100)
    /\ turning = Zero /\ gripper_pos = <<Zero, Zero, Zero>> /\ gripper_open
    /\ wheel_step = InitWheelStep /\ gripper_step = InitGripperStep

\* C12: the action a youbot call returns is, element by element,
\* [0, 0.5 + gripper_offset[1], 0.3, gripper_offset[0] - 0.1, 0.2, 0, 0, g,
\* g, speed + turning, speed - turning, speed + turning, speed - turning]
\* of the state the call leaves, g being 0.5 or -0.5: elements 0, 2, 4, 5
\* and 6 are the same constants after any keys, elements 1 and 3 follow
\* the offsets moved by j/l and by i/k.
C12_YoubotLayout ==
    (Returned /\ agent_type = "youbot_noplugin")
        => /\ actions =
                <<Zero, FAdd(C0_5, gripper_pos[2]), C0_3,
                  FSub(gripper_pos[1], C0_1), C0_2, Zero,
                  Zero, actions[8], actions[8],
                  FAdd(speed, turning), FSub(speed, turning),
                  FAdd(speed, turning), FSub(speed, turning)>>
           /\ actions[8] \in {C0_5, FNeg(C0_5)}

\* "j" and then "k" were sampled: element 1 is 0.5 - 0.02 and element 3 is
\* 0.02 - 0.1
C12_Witness ==
    /\ Returned /\ agent_type = "youbot_noplugin" /\ sampled = <<"j", "k">>
    /\ gripper_pos[1] = Lit(2, 100) /\ gripper_pos[2] = FNeg(Lit(2, 100))
    /\ actions[2] = Lit(48, 100)
    /\ actions[4] = FSub(Lit(2, 100), Lit(1, 10))
    /\ actions[4] # actions[2]

\* C13: the action a pr2 call returns is [fl, fl, fr, fr, bl, bl, br, br]
\* with fl = bl = speed + turning and fr = br = speed - turning: elements
\* 0, 1, 4, 5 are the left wheel value and elements 2, 3, 6, 7 the right
\* wheel value of the diff-drive action of the same state.
C13_Pr2Layout ==
    (Returned /\ agent_type = "pr2_noplugin")
        => /\ actions = <<FAdd(speed, turning), FAdd(speed, turning),
                          FSub(speed, turning), FSub(speed, turning),
                          FAdd(speed, turning), FAdd(speed, turning),
                          FSub(speed, turning), FSub(speed, turning)>>
           /\ \A i \in {1, 2, 5, 6} :
                  actions[i] = ToDiffDriveAction(speed, turning)[1]
           /\ \A i \in {3, 4, 7, 8} :
                  actions[i] = ToDiffDriveAction(speed, turning)[2]

\* "w" and then "a" were sampled: left is 0.45 - 0.5, right is 0.45 + 0.5
C13_Witness ==
    /\ Returned /\ agent_type = "pr2_noplugin" /\ sampled = <<"w", "a">>
    /\ ticks = 2
    /\ actions[1] = FSub(Lit(45, 100), Lit(5, 10))
    /\ actions[3] = Lit(95, 100)
    /\ actions[1] # actions[3]

\* speed and turning as a call has them after the decay, before the key
DecayedSpeed   == FMul(speed, speed_decay)
DecayedTurning == FMul(turning, turning_decay)

\* C14: the decay comes before the key's effect and the key's threshold
\* test reads the decayed value d = speed * speed_decay or t = turning *
\* turning_decay: "w" leaves speed 0 if d < -0.01 and d + wheel_step
\* otherwise, "s" leaves 0 if d > 0.01 and d - wheel_step otherwise, "a"
\* leaves turning 0 if t > 0.01 and t - wheel_step otherwise, "d" leaves 0
\* if t < -0.01 and t + wheel_step otherwise.  A key opposing a motion of
\* decayed magnitude above 0.01 leaves exactly 0 and not the other sign.
C14_DecayThenKey ==
    [][ReturnStep
       => /\ key' = "w"
             => speed' = IF FLt(DecayedSpeed, FNeg(C0_01)) THEN Zero
                         ELSE FAdd(DecayedSpeed, wheel_step)
          /\ key' = "s"
             => speed' = IF FGt(DecayedSpeed, C0_01) THEN Zero
                         ELSE FSub(DecayedSpeed, wheel_step)
          /\ key' = "a"
             => turning' = IF FGt(DecayedTurning, C0_01) THEN Zero
                           ELSE FSub(DecayedTurning, wheel_step)
          /\ key' = "d"
             => turning' = IF FLt(DecayedTurning, FNeg(C0_01))
                           THEN Zero
                           ELSE FAdd(DecayedTurning, wheel_step)
          /\ (key' = "w" /\ FLt(DecayedSpeed, FNeg(C0_01)))
             => FIsZero(speed') /\ ~FGt(speed', Zero)
          /\ (key' = "s" /\ FGt(DecayedSpeed, C0_01))
             => FIsZero(speed') /\ ~FLt(speed', Zero)
          /\ (key' = "a" /\ FGt(DecayedTurning, C0_01))
             => FIsZero(turning') /\ ~FLt(turning', Zero)
          /\ (key' = "d" /\ FLt(DecayedTurning, FNeg(C0_01)))
             => FIsZero(turning') /\ ~FGt(turning', Zero)]_vars

\* "a" was sampled when the turning left by an earlier "d" had decayed to
\* less than 0.01: turning is within 0.01 above -wheel_step
C14_Witness ==
    /\ Returned /\ key = "a" /\ sampled = <<"d", "a">>
    /\ FGt(turning, FNeg(wheel_step))
    /\ FLt(turning, FSub(Lit(1, 100), wheel_step))

\* "s" was sampled one call after "w": the decayed speed 0.45 is above the
\* threshold and speed is 0
C14_WitnessBrake ==
    /\ Returned /\ key = "s" /\ sampled = <<"w", "s">> /\ ticks = 2
    /\ speed = FZero(0)

\* the step is a call sampling the key that every call so far has sampled
HeldStep ==
    /\ ReturnStep /\ key' \in MoveKeys
    /\ Len(sampled') = ticks' /\ Only(key', sampled')

\* 5 - 3 * 2^-50, the float printed as 4.999999999999997
AlmostFive == FSub(Lit(5, 1), [sgn |-> 0, man |-> <<3>>, exp |-> 0 - 50])

\* C15 as stated: while the same key "w" or "s" is sampled by every call,
\* each call leaves a speed different from the one it found.
C15_Original ==
    [][(HeldStep /\ key' \in {"w", "s"}) => speed' # speed]_vars

\* C15 amended: while the same movement key is sampled by every call from
\* the constructed state, speed (for "w", "s") or turning (for "a", "d")
\* has the sign of the key, stays below wheel_step / (1 - decay) in
\* magnitude, which is 5 for speed and 1 or less for turning, and never
\* shrinks: it does not oscillate.  It grows strictly in the first 328
\* calls for speed and the first 54 for turning, and is the same after as
\* before every later call: speed has settled at 4.999999999999997 or its
\* negative, turning at 1.0 or -1.0.
C15_HeldKeySettles ==
    [][/\ (HeldStep /\ key' \in {"w", "s"})
          => /\ speed'.sgn = IF key' = "w" THEN 0 ELSE 1
             /\ FCmpMag(speed', Lit(5, 1)) < 0
             /\ IF ticks' <= 328 THEN FCmpMag(speed', speed) > 0
                ELSE speed' = speed /\ FCmpMag(speed', AlmostFive) = 0
       /\ (HeldStep /\ key' \in {"a", "d"})
          => /\ turning'.sgn = IF key' = "d" THEN 0 ELSE 1
             /\ FCmpMag(turning', Lit(1, 1)) <= 0
             /\ IF ticks' <= 54 THEN FCmpMag(turning', turning) > 0
                ELSE turning' = turning
                     /\ FCmpMag(turning', Lit(1, 1)) = 0]_vars

\* the 329th call sampling "w" has left the speed it found
C15_Witness ==
    /\ Returned /\ key = "w" /\ Len(sampled) = 329 /\ Only("w", sampled)
    /\ ticks = 329
    /\ speed = AlmostFive

\* C16: the control state a call leaves is a function of the control state
\* it finds and the key it samples, and the key sampled and the characters
\* left pending are a function of the terminal and sys.stdin alone; the
\* agent type occurs in neither, and both hold for every agent type, the
\* unsupported one included.  Two instances given the same keys and
\* different agent types therefore agree on the control state after every
\* call, and a call for an unsupported type consumes a key and applies the
\* decay and the key's effect.
C16_TypeIndependent ==
    [][ReturnStep
       => /\ speed' = SpeedAfter(key', FMul(speed, speed_decay), wheel_step)
          /\ turning' =
                 TurningAfter(key', FMul(turning, turning_decay), wheel_step)
          /\ gripper_pos' = GripperPosAfter(key', gripper_pos, gripper_step)
          /\ gripper_open' = GripperOpenAfter(key', gripper_open)
          /\ wheel_step' = StepAfter(key', wheel_step)
          /\ gripper_step' = StepAfter(key', gripper_step)
          /\ speed_decay' = speed_decay /\ turning_decay' = turning_decay
          /\ key' = IF tty_queue = <<>> THEN None ELSE Head(Pending)
          /\ Pending' = IF tty_queue = <<>> THEN Pending ELSE Tail(Pending)]_vars

\* calls for the type "icub" have sampled "k" and "w": the gripper offset
\* and the speed are those of any other type
C16_Witness ==
    /\ Returned /\ agent_type = "icub" /\ sampled = <<"k", "w">>
    /\ key = "w" /\ actions = <<>>
    /\ speed = InitWheelStep /\ gripper_pos[1] = InitGripperStep

\* C17: the third gripper offset is 0 in every reachable state, whatever
\* keys were sampled and whatever operations ran, and no projection reads
\* it: the action a call returns, for every agent type, is the projection
\* of the state with another value in its place.
C17_ThirdAxisUnused ==
    /\ gripper_pos[3] = Zero
    /\ Returned
          => actions = ConvertToAgentAction(
                           agent_type, speed, turning,
                           <<gripper_pos[1], gripper_pos[2], C0_5>>,
                           gripper_open)

\* "l" and "k" were sampled: the first two offsets have moved
C17_Witness ==
    /\ Returned /\ sampled = <<"l", "k">>
    /\ gripper_pos = <<Lit(2, 100), Lit(2, 100), FZero(0)>>

\* -1, 0, 1 as x * a is below, equal to or above y * b, for positive floats
\* x, y and naturals a, b, computed without rounding
CmpScaledAt(xm, xe, ym, ye, e) == BCmp(BShl(xm, xe - e), BShl(ym, ye - e))
CmpScaled(x, a, y, b) ==
    CmpScaledAt(BMul(x.man, a), x.exp, BMul(y.man, b), y.exp,
                IF x.exp < y.exp THEN x.exp ELSE y.exp)

\* the quotient x / y of positive floats is within k * 2^-sh of 25
RatioWithin(x, y, k, sh) ==
    /\ CmpScaled(x, BShl(<<1>>, sh),
                 y, BSub(BShl(BFromNat(25), sh), BFromNat(k))) >= 0
    /\ CmpScaled(x, BShl(<<1>>, sh),
                 y, BAdd(BShl(BFromNat(25), sh), BFromNat(k))) <= 0

\* the float quotient x / y is 25.0: the quotient is within half a unit in
\* the last place of 25, which is 2^-49, both ties going to the even 25
RatioIs25(x, y) == RatioWithin(x, y, 1, 49)

IsPositive(x) == x.sgn = 0 /\ ~FIsZero(x)

StepKeyCount(keys) == Cardinality({i \in 1..Len(keys) : keys[i] \in StepKeys})

\* C18 as stated: in every reachable state both step sizes are positive and
\* wheel_step / gripper_step is 25.
C18_Original ==
    /\ IsPositive(wheel_step) /\ IsPositive(gripper_step)
    /\ RatioIs25(wheel_step, gripper_step)

\* C18 amended: both step sizes are positive in every reachable state; they
\* change only in a call sampling "+" or "-", which multiplies both by the
\* same factor, each product rounded on its own; and wheel_step /
\* gripper_step is 25 up to that rounding: it differs from 25 by at most
\* 25 * (n + 1) * 2^-51 after n step keys, and the float quotient is 25.0
\* after at most one step key.
C18_RatioUpToRounding ==
    /\ [](/\ IsPositive(wheel_step) /\ IsPositive(gripper_step)
          /\ RatioWithin(wheel_step, gripper_step,
                         25 * (StepKeyCount(sampled) + 1), 51)
          /\ StepKeyCount(sampled) <= 1
                => RatioIs25(wheel_step, gripper_step))
    /\ [][(wheel_step' # wheel_step \/ gripper_step' # gripper_step)
          => /\ ReturnStep /\ key' \in {"+", "-"}
             /\ \E f \in {Lit(15, 10), Lit(7, 10)} :
                    /\ wheel_step' = FMul(wheel_step, f)
                    /\ gripper_step' = FMul(gripper_step, f)]_vars

\* "-" was sampled twice: the float quotient of the steps is no longer 25.0
C18_Witness ==
    /\ Returned /\ sampled = <<"-", "-">>
    /\ wheel_step = FMul(FMul(Lit(5, 10), Lit(7, 10)), Lit(7, 10))
    /\ IsPositive(gripper_step)
    /\ ~RatioIs25(wheel_step, gripper_step)

====
